---------------------------- MODULE Spec2Model ----------------------------
(***************************************************************************)
(* A model of build.js: the markdown -> self-contained HTML (-> PDF)       *)
(* build job.                                                               *)
(*                                                                          *)
(* Text is a sequence of tokens; a token is a string that the regular      *)
(* expressions of build.js treat as a unit ("{{#if x}}", "{{/if}}",         *)
(* "{{x}}", "<img ", "src=", a quote, ">", a path, a word, a whitespace     *)
(* run).  The empty JavaScript string is the empty sequence.                *)
(***************************************************************************)
EXTENDS Integers, Sequences, FiniteSets, TLC

VARIABLES
    pc,         \* position of main (or of the function applied to input)
    args,       \* process.argv.slice(2)
    listing,    \* fs.readdirSync(CONTENT_DIR), in directory-listing order
    docs,       \* the source files on disk: path -> [fm, body]
    imgfs,      \* the assets on disk: path -> "file" | "dir"
    files,      \* main's files
    htmlPaths,  \* main's htmlPaths, as far as files.map(compile) has got
    dist,       \* the output directory: path -> [text, from]
    exitCode,   \* "running", or the process's exit code
    compiled,   \* the files compile was called on, in call order
    raster,     \* generatePdf's calls: <<"start"|"end"|"fail", htmlPath>>
    input,      \* the argument of a function applied on its own
    result      \* its result

vars == <<pc, args, listing, docs, imgfs, files, htmlPaths, dist, exitCode,
          compiled, raster, input, result>>

runVars == <<args, listing, docs, files, htmlPaths, dist, exitCode,
             compiled, raster>>

--------------------------------------------------------------------------
(* Sequences *)

RECURSIVE Flatten(_)
Flatten(ss) == IF ss = <<>> THEN <<>> ELSE Head(ss) \o Flatten(Tail(ss))

Range(s) == {s[i] : i \in DOMAIN s}

Count(tok, text) == Cardinality({i \in DOMAIN text : text[i] = tok})

\* The sequences over S of length at most n.
SeqUpTo(S, n) == UNION {[1..k -> S] : k \in 0..n}

--------------------------------------------------------------------------
(* JavaScript values: property lookup on an object literal *)

\* Names every object literal inherits from Object.prototype (and that \w+ matches).
ObjectPrototypeKeys == {"constructor", "toString"}

\* String(Object.prototype[key]) as String.prototype.replace coerces it.
InheritedText(key) ==
    IF key = "constructor" THEN <<"function Object() { [native code] }">>
    ELSE <<"function toString() { [native code] }">>

\* data[key]: an own property (a string), else an inherited one, else undefined.
Lookup(data, key) ==
    IF key \in DOMAIN data THEN [ty |-> "string", s |-> data[key]]
    ELSE IF key \in ObjectPrototypeKeys
         THEN [ty |-> "object", s |-> InheritedText(key)]
         ELSE [ty |-> "undefined", s |-> <<>>]

\* ToBoolean: the condition of ?: and the left operand of ||.
Truthy(v) == v.ty = "object" \/ (v.ty = "string" /\ v.s # <<>>)

\* v != null
NotNull(v) == v.ty # "undefined"

\* a || dflt, both read as text
Or(v, dflt) == IF Truthy(v) THEN v.s ELSE dflt

--------------------------------------------------------------------------
(* Template tokens *)

\* The names \w+ is tried on in this model.
Names == {"x", "y", "constructor", "title", "subtitle", "content", "styles",
          "cover_image", "read_time"}

IfOpen(k) == "{{#if " \o k \o "}}"
IfClose == "{{/if}}"
Placeholder(k) == "{{" \o k \o "}}"

IsIfOpen(tok) == \E k \in Names : tok = IfOpen(k)
IsPlaceholder(tok) == \E k \in Names : tok = Placeholder(k)
IfKey(tok) == CHOOSE k \in Names : tok = IfOpen(k)
PlaceholderKey(tok) == CHOOSE k \in Names : tok = Placeholder(k)

--------------------------------------------------------------------------
(* Template Renderer *)

\* The index of the first {{/if}} after position 1 of html, 0 when there is none:
\* where the lazy [\s\S]*? stops.
FirstClose(html) ==
    IF \E j \in 2..Len(html) : html[j] = IfClose
    THEN CHOOSE j \in 2..Len(html) :
            /\ html[j] = IfClose
            /\ \A m \in 2..(j - 1) : html[m] # IfClose
    ELSE 0

\* html.replace(/\{\{#if (\w+)\}\}([\s\S]*?)\{\{\/if\}\}/g, ...): the matches are
\* found left to right and do not overlap; what is not matched is copied.
RECURSIVE processConditionals(_, _)
processConditionals(html, data) ==
    IF html = <<>> THEN <<>>
    ELSE IF IsIfOpen(Head(html)) /\ FirstClose(html) # 0
         THEN LET j == FirstClose(html)
                  block == SubSeq(html, 2, j - 1)
              IN (IF Truthy(Lookup(data, IfKey(Head(html)))) THEN block ELSE <<>>)
                 \o processConditionals(SubSeq(html, j + 1, Len(html)), data)
         ELSE <<Head(html)>> \o processConditionals(Tail(html), data)

\* The callback of replacePlaceholders for one token.
PlaceholderValue(tok, data) ==
    LET v == Lookup(data, PlaceholderKey(tok))
    IN IF NotNull(v) THEN v.s ELSE <<>>

\* html.replace(/\{\{(\w+)\}\}/g, ...): one pass; a replacement is not scanned.
replacePlaceholders(html, data) ==
    Flatten([i \in DOMAIN html |->
        IF IsPlaceholder(html[i]) THEN PlaceholderValue(html[i], data)
        ELSE <<html[i]>>])

\* Lines 144-145 with the two passes in the other order.
RenderPlaceholdersFirst(template, data) ==
    processConditionals(replacePlaceholders(template, data), data)

\* Lines 144-145 of compile: conditionals, then placeholders.
Render(template, data) ==
    replacePlaceholders(processConditionals(template, data), data)

--------------------------------------------------------------------------
(* Paths: a path is a text, its separators and its extension tokens of their own *)

CONTENT_DIR == <<"content">>
DIST_DIR == <<"dist">>

--------------------------------------------------------------------------
(* Asset Inliner *)

\* MIME_TYPES: extension -> MIME type.
MIME_TYPES ==
    [e \in {".png", ".jpg", ".jpeg", ".gif", ".svg", ".webp", ".avif"} |->
        CASE e = ".png" -> "image/png"
          [] e = ".jpg" -> "image/jpeg"
          [] e = ".jpeg" -> "image/jpeg"
          [] e = ".gif" -> "image/gif"
          [] e = ".svg" -> "image/svg+xml"
          [] e = ".webp" -> "image/webp"
          [] e = ".avif" -> "image/avif"]

\* An asset reference is scheme + stem + extension, one token.
Schemes == {"", "data:", "http://", "https://"}
Stems == {"a", "b", "dir", "missing"}
Extensions == {".png", ".PNG", ".txt"}
Ref(scheme, stem, ext) == scheme \o stem \o ext
RefTokens == {Ref(s, n, e) : s \in Schemes, n \in Stems, e \in Extensions}
IsRef(tok) == tok \in RefTokens
SchemeOf(tok) == CHOOSE s \in Schemes : \E n \in Stems, e \in Extensions : tok = Ref(s, n, e)

\* path.extname(p).toLowerCase() of a path that ends with a reference token.
ExtLower(tok) ==
    LET e == CHOOSE x \in Extensions : \E s \in Schemes, n \in Stems : tok = Ref(s, n, x)
    IN IF e = ".PNG" THEN ".png" ELSE e

\* data.toString("base64") of the byte strings of this model.
Base64(bytes) ==
    CASE bytes = "ABC" -> "QUJD"
      [] bytes = "abc" -> "YWJj"
      [] bytes = "hi" -> "aGk="
      [] OTHER -> ""

\* The data URIs toDataUri builds.
DataUris ==
    {"data:" \o MIME_TYPES[e] \o ";base64," \o Base64(b) :
        e \in DOMAIN MIME_TYPES, b \in {"ABC", "abc", "hi"}}

\* src.startsWith(scheme), src a non-empty text.
StartsWith(src, scheme) ==
    \/ IsRef(Head(src)) /\ SchemeOf(Head(src)) = scheme
    \/ scheme = "data:" /\ Head(src) \in DataUris

\* path.resolve(contentDir, src) of a relative src; a path is a text too.
Resolve(contentDir, src) == contentDir \o <<"/">> \o src

Null == [kind |-> "null", v |-> <<>>]

\* resolveImagePath: null, or the resolved path of a local src that exists.
resolveImagePath(src, contentDir, fs) ==
    IF StartsWith(src, "data:") \/ StartsWith(src, "http://") \/ StartsWith(src, "https://")
    THEN Null
    ELSE IF Resolve(contentDir, src) \in DOMAIN fs
         THEN [kind |-> "path", v |-> Resolve(contentDir, src)]
         ELSE Null

\* toDataUri: null for an extension outside MIME_TYPES,
\* the data URI of a file, and the exception of fs.readFileSync on a directory.
toDataUri(filePath, fs) ==
    LET last == filePath[Len(filePath)]
        ext == IF IsRef(last) THEN ExtLower(last) ELSE ""
    IN IF ext \notin DOMAIN MIME_TYPES THEN Null
       ELSE IF fs[filePath].kind # "file" THEN [kind |-> "throw", v |-> <<"EISDIR">>]
       ELSE [kind |-> "uri",
             v |-> <<"data:" \o MIME_TYPES[ext] \o ";base64," \o Base64(fs[filePath].bytes)>>]

Img == "<img "
SrcEq == "src="
Quote == "\""
Gt == ">"

\* The first position after from where html holds tok, 0 when there is none.
FirstAfter(html, from, tok) ==
    IF \E m \in (from + 1)..Len(html) : html[m] = tok
    THEN CHOOSE m \in (from + 1)..Len(html) :
            html[m] = tok /\ \A n \in (from + 1)..(m - 1) : html[n] # tok
    ELSE 0

\* /(<img\s[^>]*src=["'])([^"']+)(["'][^>]*>)/ tried at position 1 of html, which
\* holds "<img ": p is a position of "src=" that the pattern can use.
SrcCandidate(html, p) ==
    /\ html[p] = SrcEq
    /\ \A m \in 2..(p - 1) : html[m] # Gt
    /\ p + 1 <= Len(html) /\ html[p + 1] = Quote
    /\ LET c == FirstAfter(html, p + 1, Quote)
       IN c > p + 2 /\ FirstAfter(html, c, Gt) # 0

\* The greedy [^>]* gives up as little as it has to: the last candidate is used.
SrcPosition(html) ==
    IF \E p \in 2..Len(html) : SrcCandidate(html, p)
    THEN CHOOSE p \in 2..Len(html) :
            SrcCandidate(html, p) /\ \A q \in (p + 1)..Len(html) : ~SrcCandidate(html, q)
    ELSE 0

Threw == [html |-> <<>>, count |-> 0, threw |-> TRUE]

\* inlineImages: [html, count, threw]; an exception of toDataUri leaves no result.
RECURSIVE inlineImages(_, _, _)
inlineImages(html, contentDir, fs) ==
    IF html = <<>> THEN [html |-> <<>>, count |-> 0, threw |-> FALSE]
    ELSE IF Head(html) = Img /\ SrcPosition(html) # 0
    THEN LET p == SrcPosition(html)
             c == FirstAfter(html, p + 1, Quote)
             g == FirstAfter(html, c, Gt)
             match == SubSeq(html, 1, g)
             before == SubSeq(html, 1, p + 1)
             src == SubSeq(html, p + 2, c - 1)
             after == SubSeq(html, c, g)
             filePath == resolveImagePath(src, contentDir, fs)
             dataUri == IF filePath.kind = "null" THEN Null
                        ELSE toDataUri(filePath.v, fs)
             rest == inlineImages(SubSeq(html, g + 1, Len(html)), contentDir, fs)
         IN IF dataUri.kind = "throw" \/ rest.threw THEN Threw
            ELSE IF dataUri.kind = "null"
            THEN [rest EXCEPT !.html = match \o @]
            ELSE [rest EXCEPT !.html = before \o dataUri.v \o after \o @,
                              !.count = @ + 1]
    ELSE LET rest == inlineImages(Tail(html), contentDir, fs)
         IN IF rest.threw THEN Threw ELSE [rest EXCEPT !.html = <<Head(html)>> \o @]

--------------------------------------------------------------------------
(* Reading time *)

WordsPerMinute == 230

\* The tokens \s matches.
IsSpace(tok) == tok \in {" ", "\n"}

\* text.trim()
Trim(text) ==
    IF \A i \in DOMAIN text : IsSpace(text[i]) THEN <<>>
    ELSE LET first == CHOOSE i \in DOMAIN text :
                        ~IsSpace(text[i]) /\ \A m \in 1..(i - 1) : IsSpace(text[m])
             last == CHOOSE i \in DOMAIN text :
                        ~IsSpace(text[i]) /\ \A m \in (i + 1)..Len(text) : IsSpace(text[m])
         IN SubSeq(text, first, last)

\* text.split(/\s+/).length: one more than the runs of whitespace, each of which
\* separates two elements of the array (the empty string splits into [""]).
SplitLength(text) ==
    Cardinality({i \in DOMAIN text : IsSpace(text[i]) /\ (i = 1 \/ ~IsSpace(text[i - 1]))}) + 1

\* Math.ceil(a / b) for a >= 0, b > 0.
Ceil(a, b) == IF a % b = 0 THEN a \div b ELSE (a \div b) + 1

\* An estimate that rounds down.
readingTimeFloor(text) ==
    <<ToString(SplitLength(Trim(text)) \div WordsPerMinute) \o " min read">>

\* readingTime
readingTime(text) ==
    LET words == SplitLength(Trim(text))
        minutes == Ceil(words, WordsPerMinute)
    IN <<ToString(minutes) \o " min read">>

\* frontmatter.read_time || readingTime(markdown)
ReadTimeOf(frontmatter, markdown) ==
    Or(Lookup(frontmatter, "read_time"), readingTime(markdown))

--------------------------------------------------------------------------
(* Document Compiler *)

\* styles.css and template.html as read by compile.
STYLES == <<"body{}">>
TEMPLATE ==
    <<"<style>", Placeholder("styles"), "</style>",
      "<h1>", Placeholder("title"), "</h1>",
      IfOpen("subtitle"), "<h2>", Placeholder("subtitle"), "</h2>", IfClose,
      IfOpen("cover_image"), Img, SrcEq, Quote, Placeholder("cover_image"), Quote, Gt, IfClose,
      "<span>", Placeholder("read_time"), "</span>",
      Placeholder("content")>>

\* marked.parse(markdown): a paragraph around the text; raw HTML passes through.
Marked(markdown) ==
    IF Trim(markdown) = <<>> THEN <<>> ELSE <<"<p>">> \o Trim(markdown) \o <<"</p>\n">>

\* path.dirname(p) and path.basename(p, path.extname(p)) of a path .../stem.ext
Dirname(p) == SubSeq(p, 1, Len(p) - 3)
BasenameNoExt(p) == <<p[Len(p) - 1]>>

\* Lines 124-128: the cover image, inlined when it is a local file of a known type.
\* [threw, v]
CoverImage(frontmatter, contentDir, fs) ==
    LET coverImage == Or(Lookup(frontmatter, "cover_image"), <<>>)
        resolved == IF coverImage = <<>> THEN Null
                    ELSE resolveImagePath(coverImage, contentDir, fs)
        uri == IF resolved.kind = "null" THEN Null ELSE toDataUri(resolved.v, fs)
    IN [threw |-> uri.kind = "throw",
        v |-> IF uri.kind = "uri" THEN uri.v ELSE coverImage]

\* Lines 130-142: the render context.
RenderContext(frontmatter, markdown, coverImage) ==
    [k \in {"title", "subtitle", "author", "date", "category", "cover_image",
            "og_image", "read_time", "footer", "styles", "content"} |->
        CASE k = "title" -> Or(Lookup(frontmatter, "title"), <<"Untitled">>)
          [] k = "cover_image" -> coverImage
          [] k = "read_time" -> ReadTimeOf(frontmatter, markdown)
          [] k = "styles" -> STYLES
          [] k = "content" -> Marked(markdown)
          [] OTHER -> Or(Lookup(frontmatter, k), <<>>)]

\* Lines 150-152: dist/<slug>.html, slug the metadata's or the file's base name.
OutPath(frontmatter, inputFile) ==
    DIST_DIR \o <<"/">> \o Or(Lookup(frontmatter, "slug"), BasenameNoExt(inputFile))
             \o <<".html">>

\* compile up to the write: [threw, outPath, output].  Reading a file that is not
\* there throws, and so does inlining a directory.
compile(inputFile, disk, fs) ==
    IF inputFile \notin DOMAIN disk THEN [threw |-> TRUE, outPath |-> <<>>, output |-> <<>>]
    ELSE LET frontmatter == disk[inputFile].frontmatter
             markdown == disk[inputFile].markdown
             contentDir == Dirname(inputFile)
             cover == CoverImage(frontmatter, contentDir, fs)
             data == RenderContext(frontmatter, markdown, cover.v)
             inlined == inlineImages(Render(TEMPLATE, data), contentDir, fs)
         IN IF cover.threw \/ inlined.threw
            THEN [threw |-> TRUE, outPath |-> <<>>, output |-> <<>>]
            ELSE [threw |-> FALSE,
                  outPath |-> OutPath(frontmatter, inputFile),
                  output |-> inlined.html]

\* htmlPath.replace(/\.html$/, ".pdf")
PdfPath(htmlPath) ==
    IF htmlPath[Len(htmlPath)] = ".html"
    THEN SubSeq(htmlPath, 1, Len(htmlPath) - 1) \o <<".pdf">>
    ELSE htmlPath

--------------------------------------------------------------------------
(* Job Runner: main *)

FlagAll == <<"--", "all">>
FlagPdf == <<"--", "pdf">>

\* args.includes(flag)
Includes(as, flag) == \E i \in DOMAIN as : as[i] = flag

\* a.startsWith("--")
StartsWithDashes(a) == a # <<>> /\ Head(a) = "--"
NotFlag(a) == ~StartsWithDashes(a)

\* f.endsWith(".md")
EndsWithMd(f) == f # <<>> /\ f[Len(f)] = ".md"

\* path.isAbsolute(t)
IsAbsolute(t) == t # <<>> /\ Head(t) = "/"

\* path.join(CONTENT_DIR, f)
JoinContent(f) == CONTENT_DIR \o <<"/">> \o f

\* fs.readdirSync(CONTENT_DIR).filter(...).map(...)
ScanContent(dir) ==
    LET md == SelectSeq(dir, EndsWithMd)
    IN [i \in DOMAIN md |-> JoinContent(md[i])]

\* Lines 169-188 with the filename arguments taking precedence over --all.
CollectTargetsFirst(as, dir) ==
    LET targets == SelectSeq(as, NotFlag)
    IN IF targets # <<>>
       THEN [i \in DOMAIN targets |->
                IF IsAbsolute(targets[i]) THEN targets[i] ELSE JoinContent(targets[i])]
       ELSE ScanContent(dir)

\* Lines 169-188: the target files.
CollectFiles(as, dir) ==
    IF Includes(as, FlagAll) THEN ScanContent(dir)
    ELSE LET targets == SelectSeq(as, NotFlag)
         IN IF Len(targets) # 0
            THEN [i \in DOMAIN targets |->
                    IF IsAbsolute(targets[i]) THEN targets[i] ELSE JoinContent(targets[i])]
            ELSE ScanContent(dir)

buildPdf == Includes(args, FlagPdf)

\* Lines 164-193 with "nothing to build" treated as a failure.
CollectExitOne ==
    /\ pc = "start"
    /\ files' = CollectFiles(args, listing)
    /\ IF Len(files') = 0
       THEN pc' = "exited" /\ exitCode' = 1
       ELSE pc' = "compile" /\ UNCHANGED exitCode
    /\ UNCHANGED <<args, listing, docs, imgfs, htmlPaths, dist, compiled, raster,
                   input, result>>

\* Lines 164-193: collect the files; with none, process.exit(0).
Collect ==
    /\ pc = "start"
    /\ files' = CollectFiles(args, listing)
    /\ IF Len(files') = 0
       THEN pc' = "exited" /\ exitCode' = 0
       ELSE pc' = "compile" /\ UNCHANGED exitCode
    /\ UNCHANGED <<args, listing, docs, imgfs, htmlPaths, dist, compiled, raster,
                   input, result>>

\* One call of compile by files.map that goes on with the next file after a throw.
CompileEachContinue ==
    /\ pc = "compile"
    /\ Len(compiled) < Len(files)
    /\ LET inputFile == files[Len(compiled) + 1]
           r == compile(inputFile, docs, imgfs)
       IN /\ compiled' = Append(compiled, inputFile)
          /\ IF r.threw
             THEN UNCHANGED <<htmlPaths, dist>>
             ELSE /\ dist' = (r.outPath :> [text |-> r.output, from |-> inputFile]) @@ dist
                  /\ htmlPaths' = Append(htmlPaths, r.outPath)
          /\ UNCHANGED <<pc, exitCode>>
    /\ UNCHANGED <<args, listing, docs, imgfs, files, raster, input, result>>

\* Line 196, one call of compile by files.map: the output is written (lines
\* 154-155) and its path kept; a throw rejects main's promise, and the handler of
\* lines 208-211 exits with code 1.
CompileEach ==
    /\ pc = "compile"
    /\ Len(htmlPaths) < Len(files)
    /\ LET inputFile == files[Len(htmlPaths) + 1]
           r == compile(inputFile, docs, imgfs)
       IN /\ compiled' = Append(compiled, inputFile)
          /\ IF r.threw
             THEN /\ pc' = "exited" /\ exitCode' = 1
                  /\ UNCHANGED <<htmlPaths, dist>>
             ELSE /\ dist' = (r.outPath :> [text |-> r.output, from |-> inputFile]) @@ dist
                  /\ htmlPaths' = Append(htmlPaths, r.outPath)
                  /\ UNCHANGED <<pc, exitCode>>
    /\ UNCHANGED <<args, listing, docs, imgfs, files, raster, input, result>>

\* Lines 198-205 with the PDFs generated whether or not --pdf is given.
CompiledAlwaysPdf ==
    /\ pc = "compile"
    /\ Len(htmlPaths) = Len(files)
    /\ pc' = "pdf"
    /\ UNCHANGED <<args, listing, docs, imgfs, files, htmlPaths, dist, exitCode,
                   compiled, raster, input, result>>

\* Lines 198-205, files.map has returned: on to the PDFs with --pdf, else done.
Compiled ==
    /\ pc = "compile"
    /\ Len(htmlPaths) = Len(files)
    /\ IF buildPdf
       THEN pc' = "pdf" /\ UNCHANGED exitCode
       ELSE pc' = "done" /\ exitCode' = 0
    /\ UNCHANGED <<args, listing, docs, imgfs, files, htmlPaths, dist,
                   compiled, raster, input, result>>

\* The htmlPath generatePdf is working on, when the last call has not returned.
Rasterizing == raster # <<>> /\ raster[Len(raster)][1] = "start"
Rasterized == Cardinality({n \in DOMAIN raster : raster[n][1] = "end"})

\* Lines 200-201: the loop calls generatePdf on the next htmlPath.
PdfStart ==
    /\ pc = "pdf"
    /\ ~Rasterizing
    /\ Rasterized < Len(htmlPaths)
    /\ raster' = Append(raster, <<"start", htmlPaths[Rasterized + 1]>>)
    /\ UNCHANGED <<pc, args, listing, docs, imgfs, files, htmlPaths, dist, exitCode,
                   compiled, input, result>>

\* Lines 25-50: generatePdf returns, the PDF written beside the HTML file.
PdfEnd ==
    /\ pc = "pdf"
    /\ Rasterizing
    /\ LET htmlPath == raster[Len(raster)][2]
       IN /\ raster' = Append(raster, <<"end", htmlPath>>)
          /\ dist' = (PdfPath(htmlPath) :> [text |-> <<"%PDF">>, from |-> htmlPath]) @@ dist
    /\ UNCHANGED <<pc, args, listing, docs, imgfs, files, htmlPaths, exitCode,
                   compiled, input, result>>

\* Lines 25-50 and 208-211: generatePdf throws (no browser, no page, no file),
\* before or after page.pdf wrote the file; main's promise is rejected, exit code 1.
PdfFail ==
    /\ pc = "pdf"
    /\ Rasterizing
    /\ LET htmlPath == raster[Len(raster)][2]
       IN /\ raster' = Append(raster, <<"fail", htmlPath>>)
          /\ \E written \in BOOLEAN :
                dist' = IF written
                        THEN (PdfPath(htmlPath) :> [text |-> <<"%PDF">>, from |-> htmlPath]) @@ dist
                        ELSE dist
    /\ pc' = "exited"
    /\ exitCode' = 1
    /\ UNCHANGED <<args, listing, docs, imgfs, files, htmlPaths, compiled, input, result>>

\* Line 205: the loop is over, main returns and the process ends with code 0.
PdfDone ==
    /\ pc = "pdf"
    /\ ~Rasterizing
    /\ Rasterized = Len(htmlPaths)
    /\ pc' = "done"
    /\ exitCode' = 0
    /\ UNCHANGED <<args, listing, docs, imgfs, files, htmlPaths, dist,
                   compiled, raster, input, result>>

--------------------------------------------------------------------------
(* The states of the variables a specification does not use *)

NoRun ==
    /\ args = <<>> /\ listing = <<>> /\ docs = <<>> /\ files = <<>>
    /\ htmlPaths = <<>> /\ dist = <<>> /\ exitCode = "running"
    /\ compiled = <<>> /\ raster = <<>>

--------------------------------------------------------------------------
(* The Template Renderer on bounded templates and contexts *)

MaxPieces == 2

TemplateTokens ==
    {"A", IfOpen("x"), IfClose, Placeholder("x"), Placeholder("y"),
     Placeholder("constructor")}

\* {{#if k}}body{{/if}}
Region(k, body) == <<IfOpen(k)>> \o body \o <<IfClose>>

TemplatePieces ==
    {<<t>> : t \in TemplateTokens}
    \cup {Region(k, b) : k \in {"x", "y", "constructor"},
                         b \in {<<"A">>, <<"B">>, <<Placeholder("x")>>}}

Templates == {Flatten(ps) : ps \in SeqUpTo(TemplatePieces, MaxPieces)}

ContextValues(k) ==
    IF k = "x"
    THEN {<<>>, <<"1">>, <<Placeholder("y")>>, <<IfOpen("y"), "Z", IfClose>>}
    ELSE {<<"B">>}

Contexts ==
    {d \in UNION {[K -> ContextValues("x") \cup ContextValues("y")] :
                    K \in SUBSET {"x", "y"}} :
        \A k \in DOMAIN d : d[k] \in ContextValues(k)}

TemplateInit ==
    /\ pc = "start"
    /\ input \in [template : Templates, data : Contexts]
    /\ result = <<>>
    /\ imgfs = <<>>
    /\ NoRun

CallProcessConditionals ==
    /\ pc = "start"
    /\ pc' = "conditionals"
    /\ result' = processConditionals(input.template, input.data)
    /\ UNCHANGED <<input, imgfs, runVars>>

CallReplacePlaceholders ==
    /\ pc = "start"
    /\ pc' = "placeholders"
    /\ result' = replacePlaceholders(input.template, input.data)
    /\ UNCHANGED <<input, imgfs, runVars>>

CallRender ==
    /\ pc = "start"
    /\ pc' = "rendered"
    /\ result' = Render(input.template, input.data)
    /\ UNCHANGED <<input, imgfs, runVars>>

TemplateNext == CallProcessConditionals \/ CallReplacePlaceholders \/ CallRender

TemplateSpec == TemplateInit /\ [][TemplateNext]_vars

--------------------------------------------------------------------------
(* What the Template Renderer is required to compute, stated on the template *)

IsMarker(tok) == IsIfOpen(tok) \/ tok = IfClose

\* The if-markers of a template, in order.
Markers(t) == SelectSeq(t, IsMarker)

\* The regions are not nested and every marker belongs to one: the markers read
\* open, close, open, close, ...
Flat(t) ==
    LET ms == Markers(t)
    IN /\ Len(ms) % 2 = 0
       /\ \A m \in DOMAIN ms : IF m % 2 = 1 THEN IsIfOpen(ms[m]) ELSE ms[m] = IfClose

\* The last marker before position i of t, 0 when there is none.
LastMarkerBefore(t, i) ==
    IF \E m \in 1..(i - 1) : IsMarker(t[m])
    THEN CHOOSE m \in 1..(i - 1) :
            IsMarker(t[m]) /\ \A n \in (m + 1)..(i - 1) : ~IsMarker(t[n])
    ELSE 0

\* Position i of a flat template lies in a region: the name guarding it.
InRegion(t, i) == LastMarkerBefore(t, i) # 0 /\ IsIfOpen(t[LastMarkerBefore(t, i)])
Guard(t, i) == IfKey(t[LastMarkerBefore(t, i)])

\* The context holds a non-empty value for k.
Present(data, k) == k \in DOMAIN data /\ data[k] # <<>>

\* The context's own value for k, empty when it has none.
OwnValue(data, k) == IF k \in DOMAIN data THEN data[k] ELSE <<>>

\* The tokens of t at the positions keep holds of, in order.
Select(t, keep(_)) == Flatten([i \in DOMAIN t |-> IF keep(i) THEN <<t[i]>> ELSE <<>>])

RECURSIVE Sum(_)
Sum(ns) == IF ns = <<>> THEN 0 ELSE Head(ns) + Sum(Tail(ns))

\* C6: processConditionals keeps the text of every non-nested region whose name has
\* a non-empty value in the context, without its markers, and removes every other
\* region whole.
C6_RegionKeptIffPresent ==
    (pc = "conditionals" /\ Flat(input.template)) =>
        LET t == input.template
            keep(i) == /\ ~IsMarker(t[i])
                       /\ InRegion(t, i) => Present(input.data, Guard(t, i))
        IN result = Select(t, keep)

\* C6 on the templates none of whose regions is guarded by a name that object
\* literals inherit.
C6_OwnNamesLemma ==
    (/\ pc = "conditionals" /\ Flat(input.template)
     /\ \A i \in DOMAIN input.template :
            IsIfOpen(input.template[i]) => IfKey(input.template[i]) \notin ObjectPrototypeKeys) =>
        LET t == input.template
            keep(i) == /\ ~IsMarker(t[i])
                       /\ InRegion(t, i) => Present(input.data, Guard(t, i))
        IN result = Select(t, keep)

\* C7: replacePlaceholders replaces every placeholder token by the context's value
\* for its name, and by the empty string when the context has no such key; no
\* token of the template is left as literal text.
C7_PlaceholderOwnValueOrEmpty ==
    pc = "placeholders" =>
        LET t == input.template
        IN result = Flatten([i \in DOMAIN t |->
                        IF IsPlaceholder(t[i])
                        THEN OwnValue(input.data, PlaceholderKey(t[i]))
                        ELSE <<t[i]>>])

\* C7 on the templates none of whose placeholders names what object literals inherit.
C7_OwnNamesLemma ==
    (/\ pc = "placeholders"
     /\ \A i \in DOMAIN input.template :
            IsPlaceholder(input.template[i]) =>
                PlaceholderKey(input.template[i]) \notin ObjectPrototypeKeys) =>
        LET t == input.template
        IN result = Flatten([i \in DOMAIN t |->
                        IF IsPlaceholder(t[i])
                        THEN OwnValue(input.data, PlaceholderKey(t[i]))
                        ELSE <<t[i]>>])

\* The tokens a context value can hold.
ValueTokens == UNION {Range(v) : v \in ContextValues("x") \cup ContextValues("y")}

\* A placeholder of a flat template that lies in a region the context drops.
InDroppedRegion(t, data, i) ==
    InRegion(t, i) /\ ~Truthy(Lookup(data, Guard(t, i)))

\* The occurrences of tok that the text t, taken at the positions survives holds
\* of, gives once each placeholder there stands for its value, unscanned.
Occurrences(tok, t, d, survives(_)) ==
    Sum([i \in DOMAIN t |->
            IF ~survives(i) THEN 0
            ELSE IF IsPlaceholder(t[i]) THEN Count(tok, PlaceholderValue(t[i], d))
            ELSE IF t[i] = tok THEN 1 ELSE 0])

\* C8: in compile the conditionals are resolved before the placeholders are
\* substituted and a substituted value is not scanned again.  The rendered text
\* holds, token for token, what conditional elimination left of the template with
\* each placeholder's value in its place: the placeholders and if-markers inside a
\* value are there verbatim.  For a flat template, what is left is the text outside
\* the dropped regions, so a placeholder in a dropped region contributes nothing.
C8_ConditionalsFirstNoRescan ==
    pc = "rendered" =>
        LET t == input.template
            d == input.data
            left == processConditionals(t, d)
            all(i) == TRUE
            survives(i) == ~IsMarker(t[i]) /\ ~InDroppedRegion(t, d, i)
            tokens == Range(t) \cup Range(result) \cup ValueTokens
        IN /\ \A tok \in tokens : Count(tok, result) = Occurrences(tok, left, d, all)
           /\ Flat(t) =>
                /\ \A tok \in tokens : Count(tok, result) = Occurrences(tok, t, d, survives)
                /\ Len(result) = Sum([i \in DOMAIN t |->
                        IF ~survives(i) THEN 0
                        ELSE IF IsPlaceholder(t[i]) THEN Len(PlaceholderValue(t[i], d))
                        ELSE 1])

\* A flat template is rendered whose dropped region holds a placeholder with a
\* non-empty value, and whose substituted value holds a placeholder and if-markers.
C8_Witness ==
    /\ pc = "rendered" /\ Flat(input.template)
    /\ \E i \in DOMAIN input.template :
        /\ IsPlaceholder(input.template[i])
        /\ InDroppedRegion(input.template, input.data, i)
        /\ PlaceholderValue(input.template[i], input.data) # <<>>
    /\ \E i \in DOMAIN result : IsMarker(result[i]) \/ IsPlaceholder(result[i])

--------------------------------------------------------------------------
(* The Asset Inliner on bounded markup *)

MaxMarkup == 2

\* The assets on disk: a.png and a.PNG are images, b.txt is a file of an unsupported
\* type, dir.png (when there) is a directory; nothing else exists.
AssetTrees ==
    LET base == (CONTENT_DIR \o <<"/", "a.png">> :> [kind |-> "file", bytes |-> "ABC"])
                 @@ (CONTENT_DIR \o <<"/", "a.PNG">> :> [kind |-> "file", bytes |-> "abc"])
                 @@ (CONTENT_DIR \o <<"/", "b.png">> :> [kind |-> "file", bytes |-> "hi"])
                 @@ (CONTENT_DIR \o <<"/", "b.txt">> :> [kind |-> "file", bytes |-> "hi"])
    IN {base,
        base @@ (CONTENT_DIR \o <<"/", "dir.png">> :> [kind |-> "dir", bytes |-> ""])}

\* The values of src in the markup of this model.
SrcValues ==
    {<<r>> : r \in {"a.png", "a.PNG", "b.txt", "missing.png", "dir.png",
                    "http://a.png", "https://a.png", "data:a.png"}}

\* An attribute: its name and its value, a text without quotes.
SrcAttrs == [name : {"src"}, value : SrcValues]
OtherAttrs ==
    [name : {"data-src"}, value : {<<"b.png">>}]
    \cup [name : {"alt"}, value : {<<"x">>, <<"x", Gt, "y">>}]

\* A piece of markup: a word of text, or an image tag with one src attribute and at
\* most one other attribute before or after it.
MarkupPieces ==
    {[tag |-> FALSE, attrs |-> <<>>]}
    \cup {[tag |-> TRUE, attrs |-> <<a>>] : a \in SrcAttrs}
    \cup {[tag |-> TRUE, attrs |-> <<a, b>>] : a \in SrcAttrs, b \in OtherAttrs}
    \cup {[tag |-> TRUE, attrs |-> <<b, a>>] : a \in SrcAttrs, b \in OtherAttrs}

\* name="value" preceded by a blank: data-src is data- followed by src=.
AttrText(a) ==
    (IF a.name = "src" THEN <<SrcEq>>
     ELSE IF a.name = "data-src" THEN <<"data-", SrcEq>>
     ELSE <<"alt=">>) \o <<Quote>> \o a.value \o <<Quote>>

PieceText(piece) ==
    IF ~piece.tag THEN <<"T">>
    ELSE <<Img>> \o Flatten([i \in DOMAIN piece.attrs |->
                    (IF i = 1 THEN <<>> ELSE <<" ">>) \o AttrText(piece.attrs[i])])
         \o <<Gt>>

MarkupText(markup) == Flatten([i \in DOMAIN markup |-> PieceText(markup[i])])

InlinerInit ==
    /\ pc = "start"
    /\ imgfs \in AssetTrees
    /\ input \in SeqUpTo(MarkupPieces, MaxMarkup)
    /\ result = <<>>
    /\ NoRun

CallInlineImages ==
    /\ pc = "start"
    /\ pc' = "inlined"
    /\ result' = inlineImages(MarkupText(input), CONTENT_DIR, imgfs)
    /\ UNCHANGED <<input, imgfs, runVars>>

InlinerNext == CallInlineImages

InlinerSpec == InlinerInit /\ [][InlinerNext]_vars

\* The src value names a local file of a supported type: the claim's condition.
Inlinable(value, fs) ==
    LET path == Resolve(CONTENT_DIR, value)
    IN /\ ~(\E s \in {"data:", "http://", "https://"} : StartsWith(value, s))
       /\ path \in DOMAIN fs /\ fs[path].kind = "file"
       /\ ExtLower(value[Len(value)]) \in DOMAIN MIME_TYPES

\* The data URI of the file a src value names.
DataUriOf(value, fs) ==
    LET path == Resolve(CONTENT_DIR, value)
    IN <<"data:" \o MIME_TYPES[ExtLower(value[Len(value)])] \o ";base64,"
         \o Base64(fs[path].bytes)>>

\* The markup with the value of every inlinable src attribute replaced.
InlinedAttr(a, fs) ==
    IF a.name = "src" /\ Inlinable(a.value, fs)
    THEN [name |-> a.name, value |-> DataUriOf(a.value, fs)]
    ELSE a

InlinedMarkup(markup, fs) ==
    [i \in DOMAIN markup |->
        [tag |-> markup[i].tag,
         attrs |-> [j \in DOMAIN markup[i].attrs |-> InlinedAttr(markup[i].attrs[j], fs)]]]

InlinableCount(markup, fs) ==
    Sum([i \in DOMAIN markup |->
        Cardinality({j \in DOMAIN markup[i].attrs :
            markup[i].attrs[j].name = "src" /\ Inlinable(markup[i].attrs[j].value, fs)})])

\* C5: inlineImages raises no error and replaces the value of an image tag's src
\* attribute by a data URI exactly when the value is local, names an existing file
\* and has a whitelisted extension; everything else is unchanged, and the count is
\* the number of values replaced.
C5_InlinedIffLocalFileOfKnownType ==
    pc = "inlined" =>
        /\ ~result.threw
        /\ result.html = MarkupText(InlinedMarkup(input, imgfs))
        /\ result.count = InlinableCount(input, imgfs)

\* C5 on the markup whose tags hold nothing but one src attribute, with no
\* directory among the assets.
C5_SingleSrcLemma ==
    (/\ pc = "inlined"
     /\ \A i \in DOMAIN input : Len(input[i].attrs) <= 1
     /\ \A path \in DOMAIN imgfs : imgfs[path].kind = "file") =>
        /\ ~result.threw
        /\ result.html = MarkupText(InlinedMarkup(input, imgfs))
        /\ result.count = InlinableCount(input, imgfs)

--------------------------------------------------------------------------
(* The read-time value on bounded bodies *)

MaxWords == 465
MaxGap == 2

\* A body of n one-token words, gap whitespace tokens between two words, and a
\* whitespace token before the first and after the last when lead and trail say so.
BodyOf(n, gap, lead, trail) ==
    LET pre == IF lead THEN 1 ELSE 0
        core == IF n = 0 THEN 0 ELSE n + (n - 1) * gap
        post == IF trail THEN 1 ELSE 0
    IN [i \in 1..(pre + core + post) |->
            IF i > pre /\ i <= pre + core /\ (i - pre - 1) % (gap + 1) = 0
            THEN "w"
            ELSE IF i % 2 = 0 THEN " " ELSE "\n"]

\* The metadata holds no read_time, an empty one, or a string.
ReadTimeMetadata == {<<>>, [k \in {"read_time"} |-> <<>>], [k \in {"read_time"} |-> <<"5 min read">>]}

ReadTimeInit ==
    /\ pc = "start"
    /\ input \in [words : 0..MaxWords, gap : 1..MaxGap, lead : BOOLEAN, trail : BOOLEAN,
                  frontmatter : ReadTimeMetadata]
    /\ result = <<>>
    /\ imgfs = <<>>
    /\ NoRun

CallReadTime ==
    /\ pc = "start"
    /\ pc' = "estimated"
    /\ result' = ReadTimeOf(input.frontmatter,
                            BodyOf(input.words, input.gap, input.lead, input.trail))
    /\ UNCHANGED <<input, imgfs, runVars>>

ReadTimeNext == CallReadTime

ReadTimeSpec == ReadTimeInit /\ [][ReadTimeNext]_vars

\* The least m with m * 230 >= n: the ceiling of n / 230.
MinutesFor(n) ==
    CHOOSE m \in 0..n : m * WordsPerMinute >= n /\ (m = 0 \/ (m - 1) * WordsPerMinute < n)

\* C10 as claimed: without a supplied read_time the value is "<m> min read" with
\* m the ceiling of (number of words of the body) / 230; a supplied read_time is used
\* as it is.
C10_ReadTimeAsClaimed ==
    pc = "estimated" =>
        IF "read_time" \in DOMAIN input.frontmatter
        THEN result = input.frontmatter["read_time"]
        ELSE result = <<ToString(MinutesFor(input.words)) \o " min read">>

\* C10 as amended: with no read_time, or an empty one, the value is "<m> min read"
\* with m the ceiling of (number of words of the body) / 230, and m = 1 for a body
\* without words; m is at least 1 in every case (1 word -> 1, 230 -> 1, 231 -> 2);
\* a supplied non-empty read_time is used as it is.
C10_ReadTimeAmended ==
    pc = "estimated" =>
        LET n == input.words
            m == IF n = 0 THEN 1 ELSE MinutesFor(n)
        IN IF Present(input.frontmatter, "read_time")
           THEN result = input.frontmatter["read_time"]
           ELSE /\ result = <<ToString(m) \o " min read">>
                /\ m >= 1
                /\ (n = 1 => result = <<"1 min read">>)
                /\ (n = 230 => result = <<"1 min read">>)
                /\ (n = 231 => result = <<"2 min read">>)

\* The estimate of a body of 231 words with whitespace around it has been made.
C10_Witness ==
    /\ pc = "estimated"
    /\ input.words = 231 /\ input.lead /\ input.trail
    /\ "read_time" \notin DOMAIN input.frontmatter
    /\ result = <<"2 min read">>

--------------------------------------------------------------------------
(* The job on bounded command lines and content directories *)

MaxArgs == 3

Name(stem, ext) == <<stem, ext>>

\* The arguments of the command line: flags, names under content/, a name that is
\* not there, and an absolute path.
ArgChoices ==
    {FlagAll, FlagPdf, <<"--", "draft">>, Name("a", ".md"), Name("b", ".md"),
     Name("zz", ".md"), <<"/", "abs", "/", "a", ".md">>}

\* The content directory as readdirSync lists it.
Listings ==
    {<<>>,
     <<Name("notes", ".txt")>>,
     <<Name("b", ".md"), Name("a", ".md")>>,
     <<Name("d", ".md"), Name("a", ".md"), Name("b", ".md")>>,
     <<Name("a", ".md"), Name("notes", ".txt"), Name("c", ".md"), Name("b", ".md")>>}

\* A source file's metadata and body.
Doc(frontmatter, markdown) == [frontmatter |-> frontmatter, markdown |-> markdown]
Field(k, v) == [x \in {k} |-> v]

\* What each source file holds: a.md has no slug; b.md has the slug bSlug (none when
\* empty); c.md refers to an image that is a directory; d.md has a read_time and an
\* image of an unsupported type; /abs/a.md is outside content/.
DocsOn(dir, bSlug) ==
    LET a == JoinContent(Name("a", ".md")) :>
                Doc(Field("title", <<"T">>), <<"Hello", " ", "world">>)
        b == JoinContent(Name("b", ".md")) :>
                Doc(Field("title", <<"B">>) @@ Field("slug", bSlug)
                    @@ Field("cover_image", <<"a.png">>),
                    <<"See", "\n", Img, SrcEq, Quote, "https://a.png", Quote, Gt>>)
        c == JoinContent(Name("c", ".md")) :>
                Doc(<<>>, <<Img, SrcEq, Quote, "dir.png", Quote, Gt>>)
        d == JoinContent(Name("d", ".md")) :>
                Doc(Field("read_time", <<"9 min read">>),
                    <<Img, SrcEq, Quote, "b.txt", Quote, Gt>>)
        abs == <<"/", "abs", "/", "a", ".md">> :>
                Doc(Field("subtitle", <<"S">>), <<>>)
    IN (IF Includes(dir, Name("a", ".md")) THEN a ELSE <<>>)
       @@ (IF Includes(dir, Name("b", ".md")) THEN b ELSE <<>>)
       @@ (IF Includes(dir, Name("c", ".md")) THEN c ELSE <<>>)
       @@ (IF Includes(dir, Name("d", ".md")) THEN d ELSE <<>>)
       @@ abs

Slugs == {<<>>, <<"a">>, <<"post">>}

RunAssets ==
    (CONTENT_DIR \o <<"/", "a.png">> :> [kind |-> "file", bytes |-> "ABC"])
    @@ (CONTENT_DIR \o <<"/", "b.txt">> :> [kind |-> "file", bytes |-> "hi"])
    @@ (CONTENT_DIR \o <<"/", "dir.png">> :> [kind |-> "dir", bytes |-> ""])

Init ==
    /\ pc = "start"
    /\ args \in SeqUpTo(ArgChoices, MaxArgs)
    /\ listing \in Listings
    /\ \E bSlug \in Slugs : docs = DocsOn(listing, bSlug)
    /\ imgfs = RunAssets
    /\ files = <<>>
    /\ htmlPaths = <<>>
    /\ dist = <<>>
    /\ exitCode = "running"
    /\ compiled = <<>>
    /\ raster = <<>>
    /\ input = <<>>
    /\ result = <<>>

Next ==
    \/ Collect
    \/ CompileEach
    \/ Compiled
    \/ PdfStart
    \/ PdfEnd
    \/ PdfFail
    \/ PdfDone

Spec == Init /\ [][Next]_vars

--------------------------------------------------------------------------
(* The job runner's claims *)

\* compile throws on file f.
Fails(f) == compile(f, docs, imgfs).threw

\* C1: the documents are compiled one at a time in collected order; once compile
\* has thrown for the k-th file the run has ended with exit code 1, no later file
\* has been compiled, the failed one has not been compiled again, and no
\* rasterization has been started, --pdf or not.
C1_CompileFailureAbortsRun ==
    /\ Len(compiled) <= Len(files)
    /\ compiled = SubSeq(files, 1, Len(compiled))
    /\ \A k \in DOMAIN compiled :
          Fails(compiled[k]) =>
              /\ k = Len(compiled)
              /\ pc = "exited"
              /\ exitCode = 1
              /\ raster = <<>>
              /\ Len(htmlPaths) = k - 1

\* The second of three collected files has failed to compile in a run with --pdf.
C1_Witness ==
    /\ pc = "exited" /\ exitCode = 1
    /\ buildPdf
    /\ Len(files) = 3 /\ Len(compiled) = 2
    /\ Fails(compiled[2])

\* C2: collect, compile-each, rasterize-each (with --pdf only), done, in that order:
\* generatePdf is called only with --pdf and only when every collected file has
\* been compiled; its calls are made one after the other, the n-th on the n-th
\* compiled output, each returning before the next is made; a failing call is the
\* last one and ends the run with exit code 1; a run that is done has exit code 0
\* and, with --pdf, one finished call per compiled output.
C2_PhasesInOrder ==
    /\ Len(raster) <= 2 * Len(htmlPaths)
    /\ raster # <<>> => (buildPdf /\ compiled = files /\ Len(htmlPaths) = Len(files))
    /\ pc \in {"start", "compile"} => raster = <<>>
    /\ pc = "start" => compiled = <<>>
    /\ \A n \in DOMAIN raster :
          /\ raster[n][2] = htmlPaths[(n + 1) \div 2]
          /\ n % 2 = 1 => raster[n][1] = "start"
          /\ n % 2 = 0 => raster[n][1] \in {"end", "fail"}
          /\ raster[n][1] = "fail" =>
                (n = Len(raster) /\ pc = "exited" /\ exitCode = 1)
    /\ pc = "pdf" => exitCode = "running"
    /\ pc = "done" =>
          /\ exitCode = 0
          /\ compiled = files /\ Len(htmlPaths) = Len(files)
          /\ Len(raster) = IF buildPdf THEN 2 * Len(htmlPaths) ELSE 0

\* The second of three rasterizations has failed.
C2_Witness ==
    /\ Len(htmlPaths) = 3
    /\ Len(raster) = 4
    /\ raster[2][1] = "end"
    /\ raster[4][1] = "fail"
    /\ pc = "exited"

\* C3: when the collect step finds no file the run has ended with exit code 0,
\* compile and generatePdf have not been called and nothing has been written.
C3_NothingToBuildExitsZero ==
    (pc # "start" /\ files = <<>>) =>
        /\ pc = "exited"
        /\ exitCode = 0
        /\ compiled = <<>>
        /\ raster = <<>>
        /\ DOMAIN dist = {}

\* The content directory is empty and the job was run with --all and --pdf.
C3_Witness ==
    /\ pc = "exited"
    /\ files = <<>>
    /\ listing = <<>>
    /\ Includes(args, FlagAll) /\ buildPdf

\* The output name the claim gives a document: dist/<slug>.html, the slug the
\* metadata's when it has one and the file's base name without extension otherwise.
OutputNameOf(f) ==
    DIST_DIR \o <<"/">>
        \o (IF Present(docs[f].frontmatter, "slug") THEN docs[f].frontmatter["slug"]
            ELSE <<f[Len(f) - 1]>>)
        \o <<".html">>

HtmlOutputs == {p \in DOMAIN dist : p[Len(p)] = ".html"}
PdfOutputs == {p \in DOMAIN dist : p[Len(p)] = ".pdf"}

\* C4: after a successful run there is one .html file per document of the batch,
\* named dist/<slug>.html, each holding the compiled output of its own document,
\* and with --pdf one .pdf beside each.
C4_OneOutputPerDocument ==
    pc = "done" =>
        /\ \A i \in DOMAIN files :
              /\ OutputNameOf(files[i]) \in HtmlOutputs
              /\ dist[OutputNameOf(files[i])].from = files[i]
              /\ dist[OutputNameOf(files[i])].text = compile(files[i], docs, imgfs).output
        /\ Cardinality(HtmlOutputs) = Cardinality(Range(files))
        /\ buildPdf => Cardinality(PdfOutputs) = Cardinality(HtmlOutputs)

\* C4 on the batches whose documents have output names of their own.
C4_DistinctNamesLemma ==
    (/\ pc = "done"
     /\ \A i, j \in DOMAIN files :
            files[i] # files[j] => OutputNameOf(files[i]) # OutputNameOf(files[j])) =>
        /\ \A i \in DOMAIN files :
              /\ OutputNameOf(files[i]) \in HtmlOutputs
              /\ dist[OutputNameOf(files[i])].from = files[i]
              /\ dist[OutputNameOf(files[i])].text = compile(files[i], docs, imgfs).output
        /\ Cardinality(HtmlOutputs) = Cardinality(Range(files))
        /\ buildPdf => Cardinality(PdfOutputs) = Cardinality(HtmlOutputs)

\* The arguments that do not begin with "--", in argument order.
FileArgs ==
    LET at == {i \in DOMAIN args : Head(args[i]) # "--"}
        nth(n) == CHOOSE i \in at : Cardinality({j \in at : j < i}) = n - 1
    IN [n \in 1..Cardinality(at) |-> args[nth(n)]]

\* The .md names of the content directory, in listing order.
MdListing ==
    LET at == {i \in DOMAIN listing : listing[i][2] = ".md"}
        nth(n) == CHOOSE i \in at : Cardinality({j \in at : j < i}) = n - 1
    IN [n \in 1..Cardinality(at) |-> listing[nth(n)]]

\* C9: the collected files are the .md files of the content directory, in listing
\* order, when --all is given or no filename is; otherwise they are the filename
\* arguments in argument order, each under content/ unless it is absolute already;
\* an argument that begins with "--" is never a file.
C9_CollectedFiles ==
    pc # "start" =>
        /\ IF (\E i \in DOMAIN args : args[i] = <<"--", "all">>) \/ FileArgs = <<>>
           THEN files = [n \in DOMAIN MdListing |-> <<"content", "/">> \o MdListing[n]]
           ELSE files = [n \in DOMAIN FileArgs |->
                            IF FileArgs[n][1] = "/" THEN FileArgs[n]
                            ELSE <<"content", "/">> \o FileArgs[n]]
        /\ \A i \in DOMAIN files : "--" \notin Range(files[i])

\* Filenames, one of them absolute, were given with --all, and the directory scan
\* was used.
C9_Witness ==
    /\ pc = "compile"
    /\ args = <<Name("zz", ".md"), FlagAll, <<"/", "abs", "/", "a", ".md">>>>
    /\ Len(listing) = 4
    /\ files = <<JoinContent(Name("a", ".md")), JoinContent(Name("c", ".md")),
                 JoinContent(Name("b", ".md"))>>

==========================================================================
